---- MODULE Spec2Model ----
(***************************************************************************)
(* Event / booking consistency layer of gather.io.                         *)
(*                                                                         *)
(* Text is a sequence of one-character strings, so that lowercasing,       *)
(* trimming and the slug regexes are computed, not assumed.  Object ids    *)
(* are positive integers; 0 stands for a string that does not cast to an   *)
(* ObjectId.  Dates "YYYY-MM-DD" are day numbers (the validated format     *)
(* makes the string order the calendar order); instants are hours.         *)
(***************************************************************************)
EXTENDS Integers, Sequences, FiniteSets, TLC

VARIABLES
    events,     \* Event collection, in insertion (createdAt) order
    bookings,   \* Booking collection, in insertion (createdAt) order
    calls,      \* createBooking invocations in flight, one slot per caller
    log,        \* completed createBooking / cancelBooking calls with their results
    clock,      \* server instant, hours since the epoch (UTC)
    tzOffset,   \* server local time minus UTC, hours
    posts,      \* POST /api/events requests in flight
    images,     \* number of images held by the image store
    responses,  \* completed POST /api/events requests with their responses
    reads,      \* listing calls in flight
    results,    \* completed listing calls with their results
    slugIn,     \* title handed to generateSlug
    slugOut,    \* its result, NoSlug before the call
    cached      \* the connection cache of lib/mongodb with the connection state

vars == <<events, bookings, calls, log, clock, tzOffset, posts, images,
          responses, reads, results, slugIn, slugOut, cached>>

(***************************************************************************)
(* Bounds                                                                  *)
(***************************************************************************)
MaxCalls == 3
MaxRaceCalls == 2
MaxCapacity == 2
MaxPosts == 2
MaxDay == 2
MaxTitleLen == 4

(***************************************************************************)
(* Text helpers (String.prototype.toLowerCase / trim, character classes)   *)
(***************************************************************************)
ToLowerChar(c) ==
    CASE c = "A" -> "a"
      [] c = "B" -> "b"
      [] c = "M" -> "m"
      [] c = "T" -> "t"
      [] c = "X" -> "x"
      [] OTHER -> c

ToLowerCase(s) == [i \in 1..Len(s) |-> ToLowerChar(s[i])]

SpaceChars == {" ", "\t"}

IsSpace(c) == c \in SpaceChars

RECURSIVE TrimStart(_)
TrimStart(s) == IF s # <<>> /\ IsSpace(Head(s)) THEN TrimStart(Tail(s)) ELSE s

RECURSIVE TrimEnd(_)
TrimEnd(s) ==
    IF s # <<>> /\ IsSpace(s[Len(s)]) THEN TrimEnd(SubSeq(s, 1, Len(s) - 1)) ELSE s

Trim(s) == TrimEnd(TrimStart(s))

IsLower(c) == c \in {"a", "b", "m", "t", "x", "y"}
IsUpper(c) == c \in {"A", "B", "M", "T", "X"}
IsDigit(c) == c \in {"0", "1", "2"}
IsAlnum(c) == IsLower(c) \/ IsUpper(c) \/ IsDigit(c)

(***************************************************************************)
(* API_MESSAGES and the Booking schema messages                            *)
(***************************************************************************)
NOT_FOUND == "Resource not found"
SERVER_ERROR == "Internal server error"
DUPLICATE_BOOKING == "Already registered for this events"
EVENT_FULL == "Event is at full capacity"
BOOKING_CREATED == "Booking confirmed successfully"
BOOKING_CANCELLED == "Booking cancelled successfully"

MSG_EMAIL_REQUIRED == "Attendee email is required"
MSG_EMAIL_INVALID == "Please provide a valid email address"
MSG_NAME_REQUIRED == "Attendee full name is required"
MSG_NAME_TOO_LONG == "Full name cannot exceed 100 characters"
MaxFullNameLength == 100

(***************************************************************************)
(* Event documents                                                         *)
(***************************************************************************)
NoCapacity == 0     \* capacity is optional; an absent capacity is falsy
BadId == 0          \* a string that is not a 24-hex ObjectId
NoEvent == [id |-> BadId, title |-> <<>>, slug |-> <<>>, description |-> <<>>,
            organizer |-> <<>>, location |-> <<>>, tags |-> <<>>,
            date |-> 0, mode |-> "", capacity |-> NoCapacity]

IsObjectId(id) == id # BadId

\* Model.findById: the document with that _id, or null
FindById(coll, none, id) ==
    IF \E i \in 1..Len(coll) : coll[i].id = id
    THEN coll[CHOOSE i \in 1..Len(coll) : coll[i].id = id]
    ELSE none

(***************************************************************************)
(* Booking schema                                                          *)
(***************************************************************************)
NoBooking == [id |-> BadId, eventId |-> BadId, email |-> <<>>, nameLen |-> 0,
              status |-> ""]

\* character class of the local part: [a-zA-Z0-9.!#$%&'*+/=?^_`{|}~-]
IsLocalChar(c) == IsAlnum(c) \/ c \in {".", "!", "_", "-"}

\* one domain label: [a-zA-Z0-9](?:[a-zA-Z0-9-]{0,61}[a-zA-Z0-9])?
IsLabel(l) ==
    /\ Len(l) \in 1..63
    /\ IsAlnum(l[1]) /\ IsAlnum(l[Len(l)])
    /\ \A i \in 1..Len(l) : IsAlnum(l[i]) \/ l[i] = "-"

\* label(\.label)*
IsDomain(d) ==
    LET B == {0, Len(d) + 1} \cup {i \in 1..Len(d) : d[i] = "."}
    IN  \A i \in B \ {Len(d) + 1} :
            LET j == CHOOSE k \in B : k > i /\ \A m \in B : m > i => k <= m
            IN  IsLabel(SubSeq(d, i + 1, j - 1))

\* emailRegex.test(email)
IsValidEmail(s) ==
    \E k \in 2..Len(s) :
        /\ s[k] = "@"
        /\ \A i \in 1..(k - 1) : IsLocalChar(s[i])
        /\ IsDomain(SubSeq(s, k + 1, Len(s)))

NormalizeEmail_trimOnly(raw) == Trim(raw)

\* the email setters of the schema: trim: true, lowercase: true
NormalizeEmail(raw) == ToLowerCase(Trim(raw))

\* document validation run by save() before the pre('save') hook; the full
\* name is represented by its length after the trim setter
EmailErrors(email) ==
    IF email = <<>> THEN <<MSG_EMAIL_REQUIRED>>
    ELSE IF ~IsValidEmail(email) THEN <<MSG_EMAIL_INVALID>>
    ELSE <<>>

NameErrors(nameLen) ==
    IF nameLen = 0 THEN <<MSG_NAME_REQUIRED>>
    ELSE IF nameLen > MaxFullNameLength THEN <<MSG_NAME_TOO_LONG>>
    ELSE <<>>

BookingValidationErrors_none(email, nameLen) == <<>>

BookingValidationErrors(email, nameLen) == EmailErrors(email) \o NameErrors(nameLen)

CountConfirmed_all(coll, eventId) ==
    Cardinality({i \in 1..Len(coll) : coll[i].eventId = eventId})

\* Booking.countDocuments({eventId, status: 'confirmed'})
CountConfirmed(coll, eventId) ==
    Cardinality({i \in 1..Len(coll) :
                    coll[i].eventId = eventId /\ coll[i].status = "confirmed"})

\* Booking.findOne({eventId, email, _id: {$ne: booking._id}}) of the hook finds a document
HookFindsExisting(coll, eventId, email) ==
    \E i \in 1..Len(coll) : coll[i].eventId = eventId /\ coll[i].email = email

UniqueIndexViolated_absent(coll, eventId, email) == FALSE

\* the unique compound index {eventId: 1, email: 1} rejects the insert (E11000)
UniqueIndexViolated(coll, eventId, email) ==
    \E i \in 1..Len(coll) : coll[i].eventId = eventId /\ coll[i].email = email

EventMissing_unchecked(event) == FALSE

\* if (!event)
EventMissing(event) == event = NoEvent

CapacityReached_strict(currentBookings, capacity) == currentBookings > capacity

CapacityReached_never(currentBookings, capacity) == FALSE

\* if (currentBookings >= event.capacity)
CapacityReached(currentBookings, capacity) == currentBookings >= capacity

\* errors thrown inside createBooking: name, code and whether the message
\* contains the word 'duplicate'
ErrValidation == [name |-> "ValidationError", code |-> 0, duplicateInMessage |-> FALSE]
\* next(new Error(`Event with ID ... does not exist`))
ErrHookNoEvent == [name |-> "Error", code |-> 0, duplicateInMessage |-> FALSE]
\* next(new Error('A booking with this email already exists for the events'))
ErrHookExisting == [name |-> "Error", code |-> 0, duplicateInMessage |-> FALSE]
\* MongoServerError "E11000 duplicate key error collection ..."
ErrE11000 == [name |-> "MongoServerError", code |-> 11000, duplicateInMessage |-> TRUE]
\* findById with a string that does not cast to ObjectId
ErrCast == [name |-> "CastError", code |-> 0, duplicateInMessage |-> FALSE]
NoError == [name |-> "", code |-> 0, duplicateInMessage |-> FALSE]

\* error.code === 11000 || error.message.includes('duplicate')
IsDuplicateError(err) == err.code = 11000 \/ err.duplicateInMessage

\* the catch block of createBooking: the message returned for a thrown error
CatchMessage(err, validationErrors) ==
    IF IsDuplicateError(err) THEN <<DUPLICATE_BOOKING>>
    ELSE IF err.name = "ValidationError" THEN validationErrors
    ELSE <<SERVER_ERROR>>

(***************************************************************************)
(* Slug generation                                                         *)
(***************************************************************************)
\* parts[lo] \o ... \o parts[hi], halving the range
RECURSIVE Concat(_, _, _)
Concat(parts, lo, hi) ==
    IF lo > hi THEN <<>>
    ELSE IF lo = hi THEN parts[lo]
    ELSE LET mid == (lo + hi) \div 2
         IN  Concat(parts, lo, mid) \o Concat(parts, mid + 1, hi)

\* s.replace(/[class]+/g, r): every maximal run of class characters becomes r
ReplaceRuns(s, class, r) ==
    LET marked == [i \in 1..Len(s) |->
                      IF s[i] \in class
                      THEN (IF i > 1 /\ s[i - 1] \in class THEN <<>> ELSE r)
                      ELSE <<s[i]>>]
    IN  Concat(marked, 1, Len(s))

StripOneEdgeHyphen_none(s) == s

\* s.replace(/^-|-$/g, ''): one leading and one trailing hyphen
StripOneEdgeHyphen(s) ==
    LET a == IF s # <<>> /\ Head(s) = "-" THEN Tail(s) ELSE s
    IN  IF a # <<>> /\ a[Len(a)] = "-" THEN SubSeq(a, 1, Len(a) - 1) ELSE a

RECURSIVE StripLeadingHyphens(_)
StripLeadingHyphens(s) ==
    IF s # <<>> /\ Head(s) = "-" THEN StripLeadingHyphens(Tail(s)) ELSE s

RECURSIVE StripTrailingHyphens(_)
StripTrailingHyphens(s) ==
    IF s # <<>> /\ s[Len(s)] = "-"
    THEN StripTrailingHyphens(SubSeq(s, 1, Len(s) - 1)) ELSE s

\* [a-z0-9\s-]
IsModelSlugChar(c) == IsLower(c) \/ IsDigit(c) \/ IsSpace(c) \/ c = "-"

\* [\w\s-]
IsUtilsSlugChar(c) == IsAlnum(c) \/ c = "_" \/ IsSpace(c) \/ c = "-"

\* [\s_-]
UtilsSeparators == SpaceChars \cup {"_", "-"}

\* generateSlug of database/event.model.ts
generateSlug(title) ==
    LET lowered  == Trim(ToLowerCase(title))
        stripped == SelectSeq(lowered, IsModelSlugChar)
        spaced   == ReplaceRuns(stripped, SpaceChars, <<"-">>)
        hyphens  == ReplaceRuns(spaced, {"-"}, <<"-">>)
    IN  StripOneEdgeHyphen(hyphens)

\* generateSlug of lib/utils.ts
utilsGenerateSlug(text) ==
    LET lowered  == Trim(ToLowerCase(text))
        stripped == SelectSeq(lowered, IsUtilsSlugChar)
        joined   == ReplaceRuns(stripped, UtilsSeparators, <<"-">>)
    IN  StripTrailingHyphens(StripLeadingHyphens(joined))

(***************************************************************************)
(* Server clock                                                            *)
(***************************************************************************)
HoursPerDay == 24
Offsets == {0 - 9, 0, 9}
StartClock == HoursPerDay
TickHours == 8
MaxClock == 49

\* new Date().toISOString().split('T')[0]: the UTC calendar day
UtcDay(t) == t \div HoursPerDay

\* the calendar day of the server's local time zone
LocalDay(t, offset) == (t + offset) \div HoursPerDay

\* new Date().setHours(0, 0, 0, 0): the instant of the last local midnight
LocalMidnight(t, offset) == LocalDay(t, offset) * HoursPerDay - offset

\* new Date("YYYY-MM-DD"): a date-only string is read as UTC midnight
ParseDate(date) == date * HoursPerDay

\* eventDate < new Date().setHours(0, 0, 0, 0)
DateInPast(date, t, offset) == ParseDate(date) < LocalMidnight(t, offset)

(***************************************************************************)
(* connectDB of lib/mongodb                                                *)
(***************************************************************************)
\* mongoose.connection.readyState
Disconnected == 0
Connected == 1
Connecting == 2

Clients == {1, 2, 3}

\* cached.promise === null
NoPromise == 0

\* cached = {conn: null, promise: null} at module load.  attempts holds the
\* state of each mongoose.connect call, promise the attempt whose chained
\* promise is cached; waiters are the calls suspended at await, in the order
\* they got there; jobs is the microtask queue; history the calls that returned
ColdCache ==
    [conn |-> FALSE, promise |-> NoPromise, readyState |-> Disconnected,
     attempts |-> <<>>, waiters |-> <<>>, jobs |-> <<>>, history |-> <<>>]

Pending(cache) == {k \in 1..Len(cache.attempts) : cache.attempts[k] = "pending"}

ConnectCalls(cache) == Len(cache.history) + Len(cache.waiters)

\* cached.conn && cached.conn.connection.readyState === 1
HasHealthyConn(cache) == cache.conn /\ cache.readyState = Connected

NeedsAttempt_always(cache) == TRUE

\* if (!cached.promise)
NeedsAttempt(cache) == cache.promise = NoPromise

ResetPromise_keep(promise) == promise

\* cached.promise = null
ResetPromise(promise) == NoPromise

Job(kind, id) == [kind |-> kind, id |-> id]

IsWaiting(cache, c) == \E i \in 1..Len(cache.waiters) : cache.waiters[i].client = c

\* a call that returned: the attempt it awaited (0 for the cached
\* connection), whether it invoked mongoose.connect, the state of the cached
\* promise it found, its outcome and the readyState at its return
Returned(w, outcome, readyState) ==
    [client |-> w.client, attempt |-> w.attempt, invoked |-> w.invoked,
     found |-> w.found, outcome |-> outcome, readyState |-> readyState]

NotConnecting ==
    UNCHANGED <<events, bookings, calls, log, clock, tzOffset, posts, images,
                responses, reads, results, slugIn, slugOut>>

\* connectDB() up to its await.  A call comes from a new request, when no
\* microtask is queued, or from a request going on after an earlier
\* connectDB call of its own has returned or thrown
ConnectDB_Call(c) ==
    /\ ~IsWaiting(cached, c)
    /\ \/ cached.jobs = <<>>
       \/ cached.jobs # <<>> /\ Head(cached.jobs) = Job("followup", c)
    /\ LET jobs == IF cached.jobs = <<>> THEN <<>> ELSE Tail(cached.jobs)
           k == Len(cached.attempts) + 1
       IN  IF HasHealthyConn(cached)
           THEN cached' = [cached EXCEPT
                   !.jobs = jobs,
                   !.history = Append(@, Returned(
                       [client |-> c, attempt |-> 0, invoked |-> FALSE, found |-> "conn"],
                       "resolved", cached.readyState))]
           ELSE IF NeedsAttempt(cached)
           THEN cached' = [cached EXCEPT
                   !.jobs = jobs,
                   !.attempts = Append(@, "pending"),
                   !.promise = k,
                   !.readyState = Connecting,
                   !.waiters = Append(@, [client |-> c, attempt |-> k,
                                          invoked |-> TRUE, found |-> "none"])]
           ELSE cached' = [cached EXCEPT
                   !.waiters = Append(@, [client |-> c, attempt |-> cached.promise,
                                          invoked |-> FALSE,
                                          found |-> cached.attempts[cached.promise]]),
                   !.jobs = IF cached.attempts[cached.promise] = "pending"
                            THEN jobs
                            ELSE Append(jobs, Job("resume", c))]
    /\ NotConnecting

\* mongoose.connect settles: the connection opens, or the attempt fails
Connect_Settle(k, ok) ==
    /\ cached.jobs = <<>>
    /\ k \in Pending(cached)
    /\ cached' = [cached EXCEPT
          !.attempts[k] = IF ok THEN "resolved" ELSE "rejected",
          !.readyState = IF ok THEN Connected ELSE Disconnected,
          !.jobs = <<Job("handler", k)>>]
    /\ NotConnecting

\* the resume jobs of the calls awaiting attempt k, in the order they awaited
RECURSIVE ResumeJobs(_, _)
ResumeJobs(waiters, k) ==
    IF waiters = <<>> THEN <<>>
    ELSE (IF Head(waiters).attempt = k THEN <<Job("resume", Head(waiters).client)>>
          ELSE <<>>) \o ResumeJobs(Tail(waiters), k)

\* the .then / .catch handlers chained on mongoose.connect: on failure the
\* cached promise is reset and the error rethrown; the chained promise
\* settles and the calls awaiting it are queued
Run_Handler ==
    /\ cached.jobs # <<>> /\ Head(cached.jobs).kind = "handler"
    /\ LET k == Head(cached.jobs).id
       IN  cached' = [cached EXCEPT
              !.promise = IF cached.attempts[k] = "rejected" THEN ResetPromise(@) ELSE @,
              !.jobs = Tail(@) \o ResumeJobs(cached.waiters, k)]
    /\ NotConnecting

\* connectDB after its await: cached.conn = the instance and return, or
\* the catch block: cached.promise = null and throw.  again: the request
\* goes on to call connectDB once more
Run_Resume(again) ==
    /\ cached.jobs # <<>> /\ Head(cached.jobs).kind = "resume"
    /\ LET c == Head(cached.jobs).id
           i == CHOOSE j \in 1..Len(cached.waiters) : cached.waiters[j].client = c
           w == cached.waiters[i]
           ok == cached.attempts[w.attempt] = "resolved"
           rest == [j \in 1..(Len(cached.waiters) - 1) |->
                       IF j < i THEN cached.waiters[j] ELSE cached.waiters[j + 1]]
       IN  cached' = [cached EXCEPT
              !.conn = IF ok THEN TRUE ELSE @,
              !.promise = IF ok THEN @ ELSE ResetPromise(@),
              !.waiters = rest,
              !.history = Append(@, Returned(w, IF ok THEN "resolved" ELSE "rejected",
                                             cached.readyState)),
              !.jobs = Tail(@) \o (IF again THEN <<Job("followup", c)>> ELSE <<>>)]
    /\ NotConnecting

\* a queued follow-up that makes no call (the budget of calls is used up)
Skip_Followup ==
    /\ cached.jobs # <<>> /\ Head(cached.jobs).kind = "followup"
    /\ cached' = [cached EXCEPT !.jobs = Tail(@)]
    /\ NotConnecting

\* the open connection is lost ('disconnected') or comes back ('reconnected')
Connection_Drop ==
    /\ cached.jobs = <<>> /\ cached.readyState = Connected
    /\ cached' = [cached EXCEPT !.readyState = Disconnected]
    /\ NotConnecting

Connection_Reconnect ==
    /\ cached.jobs = <<>> /\ cached.readyState = Disconnected
    /\ Pending(cached) = {}
    /\ \E k \in 1..Len(cached.attempts) : cached.attempts[k] = "resolved"
    /\ cached' = [cached EXCEPT !.readyState = Connected]
    /\ NotConnecting

(***************************************************************************)
(* Event schema and POST /api/events                                       *)
(***************************************************************************)
NoSlug == <<"?">>
MaxTitleLength == 120
MaxImageSize == 5242880
BadDate == 0 - 1    \* a date string that is not YYYY-MM-DD
Modes == {"online", "offline", "hybrid"}
AllowedImageTypes == {"image/jpeg", "image/png", "image/webp"}
NoImage == "none"

EventValidationErrors_lax(form) == <<>>

\* schema validation of Event.create; fields the forms do not vary are valid
EventValidationErrors(form) ==
    (IF Trim(form.title) = <<>> THEN <<"Event title is required">>
     ELSE IF Len(Trim(form.title)) > MaxTitleLength
     THEN <<"Title cannot exceed 120 characters">> ELSE <<>>)
    \o (IF form.date = BadDate THEN <<"Date must be in YYYY-MM-DD format">> ELSE <<>>)
    \o (IF form.mode \notin Modes
        THEN <<"Event mode must be online, offline, or hybrid">> ELSE <<>>)
    \o (IF form.agendaLen = 0 THEN <<"At least one agenda item is required">> ELSE <<>>)
    \o (IF form.tags = <<>> THEN <<"At least one tag is required">> ELSE <<>>)

\* requiredFields.filter(field => !eventData[field]) is non-empty
MissingRequiredFields(form) == form.title = <<>> \/ form.mode = ""

SlugIndexViolated_absent(coll, slug) == FALSE

\* the unique index on slug rejects the insert (E11000)
SlugIndexViolated(coll, slug) == \E i \in 1..Len(coll) : coll[i].slug = slug

Posters == {1, 2}

NoForm == [title |-> <<>>, date |-> 0, mode |-> "", tags |-> <<>>, agendaLen |-> 0,
           organizer |-> <<>>, capacity |-> NoCapacity, image |-> NoImage,
           imageSize |-> 0]

IdlePost == [pc |-> "idle", form |-> NoForm]

PostsStarted ==
    Len(responses) + Cardinality({p \in Posters : posts[p].pc # "idle"})

\* the response of a POST, with what the handler observed when it ran
Response(form, stage, status, slug, localDay) ==
    [status |-> status, stage |-> stage, form |-> form, slug |-> slug,
     localDay |-> localDay]

Respond(p, response) ==
    /\ responses' = Append(responses, response)
    /\ posts' = [posts EXCEPT ![p] = IdlePost]

NotBooking == UNCHANGED <<bookings, calls, log, slugIn, slugOut, cached>>

\* POST up to the upload: form parsing, required fields, image checks
POST_Start(p, form) ==
    /\ posts[p].pc = "idle"
    /\ \A q \in Posters : q < p => posts[q].pc # "idle"
    /\ IF \/ MissingRequiredFields(form)
          \/ form.image = NoImage
          \/ form.image \notin AllowedImageTypes
          \/ form.imageSize > MaxImageSize
       THEN /\ responses' = Append(responses, Response(form, "check", 400, NoSlug, 0))
            /\ posts' = posts
       ELSE /\ posts' = [posts EXCEPT ![p] = [pc |-> "upload", form |-> form]]
            /\ responses' = responses
    /\ UNCHANGED <<events, images, clock, tzOffset, reads, results>>
    /\ NotBooking

\* cloudinary.uploader.upload_stream: the image is stored, or the upload fails
POST_Upload(p, ok) ==
    /\ posts[p].pc = "upload"
    /\ IF ok
       THEN /\ images' = images + 1
            /\ posts' = [posts EXCEPT ![p].pc = "create"]
            /\ responses' = responses
       ELSE /\ Respond(p, Response(posts[p].form, "upload", 500, NoSlug, 0))
            /\ images' = images
    /\ UNCHANGED <<events, clock, tzOffset, reads, results>>
    /\ NotBooking

\* Event.create: validation, the pre('save') hook (slug, past date), insert
POST_Create(p) ==
    /\ posts[p].pc = "create"
    /\ LET form == posts[p].form
           title == Trim(form.title)
           slug == generateSlug(title)
           localDay == LocalDay(clock, tzOffset)
       IN  IF EventValidationErrors(form) # <<>>
           THEN /\ Respond(p, Response(form, "validate", 400, NoSlug, localDay))
                /\ events' = events
           ELSE IF DateInPast(form.date, clock, tzOffset)
           THEN /\ Respond(p, Response(form, "hook", 500, slug, localDay))
                /\ events' = events
           ELSE IF SlugIndexViolated(events, slug)
           THEN /\ Respond(p, Response(form, "insert", 409, slug, localDay))
                /\ events' = events
           ELSE /\ events' = Append(events,
                        [id |-> Len(events) + 1, title |-> title, slug |-> slug,
                         description |-> <<"d">>, organizer |-> form.organizer,
                         location |-> <<"l">>, tags |-> form.tags, date |-> form.date,
                         mode |-> form.mode, capacity |-> form.capacity])
                /\ Respond(p, Response(form, "insert", 201, slug, localDay))
    /\ UNCHANGED <<images, clock, tzOffset, reads, results>>
    /\ NotBooking

\* time passes
Tick ==
    /\ clock + TickHours < MaxClock
    /\ clock' = clock + TickHours
    /\ UNCHANGED <<events, posts, images, responses, reads, results, tzOffset>>
    /\ NotBooking

(***************************************************************************)
(* Listing: getUpcomingEvents and GET /api/events                          *)
(***************************************************************************)
\* new RegExp(pattern, 'i') throws a SyntaxError (an unclosed group)
InvalidRegex(pattern) == \E k \in 1..Len(pattern) : pattern[k] = "("

\* regex.test(text) with the 'i' flag: the pattern occurs somewhere in the
\* text, "." standing for any character
RegexTest(pattern, text) ==
    \E off \in 0..(Len(text) - Len(pattern)) :
        \A k \in 1..Len(pattern) :
            \/ pattern[k] = "."
            \/ ToLowerChar(pattern[k]) = ToLowerChar(text[off + k])

\* {tags: {$in: [regex]}}
AnyTagMatches(pattern, tags) == \E k \in 1..Len(tags) : RegexTest(pattern, tags[k])

Args(page, limit, search, mode, tag, sort) ==
    [page |-> page, limit |-> limit, search |-> search, mode |-> mode,
     tag |-> tag, sort |-> sort, slug |-> <<>>, eventId |-> 0]

\* absent and empty arguments take the same branches
NoArgs == Args(1, 12, <<>>, "", <<>>, "")

DateFilter_absent(event, today) == TRUE

\* date: {$gte: today}
DateFilter(event, today) == event.date >= today

\* the query object of getUpcomingEvents
ActionMatches(event, args, today) ==
    /\ DateFilter(event, today)
    /\ Trim(args.search) # <<>> =>
          \/ RegexTest(args.search, event.title)
          \/ RegexTest(args.search, event.description)
          \/ AnyTagMatches(args.search, event.tags)
          \/ RegexTest(args.search, event.organizer)
          \/ RegexTest(args.search, event.location)
    /\ args.mode # "" => event.mode = args.mode
    /\ Trim(args.tag) # <<>> => AnyTagMatches(args.tag, event.tags)

\* the filter object of GET /api/events
RouteMatches(event, args, today) ==
    /\ DateFilter(event, today)
    /\ args.mode \in Modes => event.mode = args.mode
    /\ args.tag # <<>> => \E k \in 1..Len(event.tags) : event.tags[k] = args.tag
    /\ args.search # <<>> =>
          \/ RegexTest(args.search, event.title)
          \/ RegexTest(args.search, event.description)
          \/ AnyTagMatches(args.search, event.tags)

\* the searchQuery object of searchEvents: no date restriction, and the
\* pattern is used even when it is empty
SearchMatches(event, args) ==
    \/ RegexTest(args.search, event.title)
    \/ RegexTest(args.search, event.description)
    \/ AnyTagMatches(args.search, event.tags)
    \/ RegexTest(args.search, event.organizer)
    \/ RegexTest(args.search, event.location)

Matches(impl, event, args, today) ==
    IF impl = "action" THEN ActionMatches(event, args, today)
    ELSE IF impl = "search" THEN SearchMatches(event, args)
    ELSE RouteMatches(event, args, today)

\* building the query throws
QueryThrows(impl, args) ==
    IF impl = "action"
    THEN \/ Trim(args.search) # <<>> /\ InvalidRegex(args.search)
         \/ Trim(args.tag) # <<>> /\ InvalidRegex(args.tag)
    ELSE IF impl = "search" THEN InvalidRegex(args.search)
    ELSE args.search # <<>> /\ InvalidRegex(args.search)

\* the schema has no attendees path: no stored document carries one, and a
\* missing sort key compares equal to every other missing one
NoAttendees == 0
Attendees(event) == NoAttendees

SortsBefore_dateOnly(sort, a, b) == a.date <= b.date

\* sortOptions: a comes no later than b
SortsBefore(sort, a, b) ==
    IF sort = "date-desc" THEN a.date >= b.date
    ELSE IF sort = "date-created"
    THEN a.date < b.date \/ (a.date = b.date /\ a.id >= b.id)
    ELSE IF sort = "created" THEN a.id > b.id
    ELSE IF sort = "popular"
    THEN \/ Attendees(a) > Attendees(b)
         \/ Attendees(a) = Attendees(b) /\ a.date <= b.date
    ELSE a.date <= b.date

\* searchEvents sorts by {date: 1, createdAt: -1}, the listings by their
\* argument; the switch of GET has no 'popular' case and takes its default
SortOf(impl, args) ==
    IF impl = "search" THEN "date-created"
    ELSE IF impl = "route" /\ args.sort = "popular" THEN "date"
    ELSE args.sort

\* find(query).sort(sortOptions): the matching documents in an order that
\* agrees with the sort; documents with equal keys come in any order
SortedFinds(impl, coll, args, today) ==
    LET hit == {i \in 1..Len(coll) : Matches(impl, coll[i], args, today)}
        n == Cardinality(hit)
    IN  {[k \in 1..n |-> coll[order[k]]] :
            order \in {o \in [1..n -> hit] :
                          /\ \A j, k \in 1..n : o[j] = o[k] => j = k
                          /\ \A j, k \in 1..n :
                                j < k => SortsBefore(SortOf(impl, args), coll[o[j]],
                                                     coll[o[k]])}}

\* .skip(skip).limit(limit)
PageOf(sorted, page, limit) ==
    LET skip == (page - 1) * limit
        last == IF skip + limit < Len(sorted) THEN skip + limit ELSE Len(sorted)
    IN  SubSeq(sorted, skip + 1, last)

CountMatches(impl, coll, args, today) ==
    Cardinality({i \in 1..Len(coll) : Matches(impl, coll[i], args, today)})

\* Math.ceil(total / limit)
TotalPages(total, limit) == (total + limit - 1) \div limit

\* parseInt bounds of GET: page >= 1, 1 <= limit <= 50
MaxLimit == 50
ClampPage(page) == IF page < 1 THEN 1 ELSE page
ClampLimit(limit) ==
    IF limit < 1 THEN 1 ELSE IF limit > MaxLimit THEN MaxLimit ELSE limit

StatNames == {"totalEvents", "onlineEvents", "offlineEvents", "hybridEvents"}
NotCounted == 0 - 1
NoCounts == [k \in StatNames |-> NotCounted]
ZeroCounts == [k \in StatNames |-> 0]

IdleRead == [pc |-> "idle", impl |-> "", args |-> NoArgs, today |-> 0,
             counted |-> FALSE, total |-> 0, found |-> FALSE, page |-> <<>>,
             refId |-> 0, refTags |-> <<>>, counts |-> NoCounts]
\* what a call returned, with what it observed: the count it was given
\* (total) and whether it ended in its catch block (caught)
NoResult == [impl |-> "", args |-> NoArgs, today |-> 0, status |-> 0,
             events |-> <<>>, totalPages |-> 0, currentPage |-> 0,
             total |-> 0, caught |-> FALSE, refId |-> 0, refTags |-> <<>>,
             counts |-> NoCounts]

Result(r, status, page, totalPages) ==
    [impl |-> r.impl, args |-> r.args, today |-> r.today, status |-> status,
     events |-> page, totalPages |-> totalPages, currentPage |-> r.args.page,
     total |-> r.total, caught |-> FALSE, refId |-> r.refId, refTags |-> r.refTags,
     counts |-> r.counts]

Caught_partial(r) ==
    [Result(r, 0, r.page, TotalPages(r.total, r.args.limit)) EXCEPT !.caught = TRUE]

\* the catch block: {events: [], totalPages: 0, currentPage: page} of the
\* server actions, the 500 response of GET
Caught(r) ==
    [Result(r, IF r.impl = "route" THEN 500 ELSE 0, <<>>, 0)
        EXCEPT !.caught = TRUE, !.total = 0,
               !.counts = IF r.impl = "stats" THEN ZeroCounts ELSE NoCounts]

\* .skip(skip) with a negative skip is refused by the store
SkipThrows(args) == (args.page - 1) * args.limit < 0

NotPosting == UNCHANGED <<events, posts, images, responses, clock, tzOffset>>

\* the call up to its first query: arguments, today, the query object; an
\* invalid pattern ends the call in its catch block
List_Start(impl, args) ==
    /\ reads.pc = "idle" /\ results = NoResult
    /\ LET a == IF impl = "route"
                THEN [args EXCEPT !.page = ClampPage(args.page),
                                  !.limit = ClampLimit(args.limit)]
                ELSE args
           r == [IdleRead EXCEPT !.impl = impl, !.args = a, !.today = UtcDay(clock)]
       IN  IF QueryThrows(impl, args)
           THEN /\ results' = Caught(r)
                /\ reads' = reads
           ELSE /\ reads' = [r EXCEPT !.pc = "query"]
                /\ results' = results
    /\ NotPosting /\ NotBooking

\* the response once both queries are answered
ListDone(r) ==
    IF r.counted /\ r.found
    THEN /\ results' = Result(r, IF r.impl = "route" THEN 200 ELSE 0, r.page,
                              TotalPages(r.total, r.args.limit))
         /\ reads' = IdleRead
    ELSE /\ reads' = r
         /\ results' = results

\* Event.countDocuments(query): awaited first by getUpcomingEvents, issued
\* together with find by GET
List_Count ==
    /\ reads.pc = "query" /\ ~reads.counted
    /\ ListDone([reads EXCEPT !.counted = TRUE,
                              !.total = CountMatches(reads.impl, events, reads.args,
                                                     reads.today)])
    /\ NotPosting /\ NotBooking

\* Event.find(query).sort(sortOptions).skip(skip).limit(limit)
List_Find ==
    /\ reads.pc = "query" /\ ~reads.found
    /\ reads.impl \in {"action", "search"} => reads.counted
    /\ IF SkipThrows(reads.args)
       THEN /\ results' = Caught(reads)
            /\ reads' = IdleRead
       ELSE \E sorted \in SortedFinds(reads.impl, events, reads.args, reads.today) :
               ListDone([reads EXCEPT !.found = TRUE,
                                      !.page = PageOf(sorted, reads.args.page,
                                                      reads.args.limit)])
    /\ NotPosting /\ NotBooking

\* a query of the call in flight is rejected by the store (connection lost,
\* timeout): the call ends in its catch block
List_Fail ==
    /\ reads.pc = "query"
    /\ results' = Caught(reads)
    /\ reads' = IdleRead
    /\ NotPosting /\ NotBooking

(***************************************************************************)
(* getEventBookings                                                        *)
(***************************************************************************)
BookingsArgs(eventId, page, limit) ==
    [NoArgs EXCEPT !.eventId = eventId, !.page = page, !.limit = limit]

BookingMatches_anyStatus(booking, eventId) == booking.eventId = eventId

\* {eventId, status: 'confirmed'}
BookingMatches(booking, eventId) ==
    booking.eventId = eventId /\ booking.status = "confirmed"

\* .sort({createdAt: -1}): the matching bookings, newest first
RECURSIVE SortedBookings(_, _)
SortedBookings(coll, eventId) ==
    IF coll = <<>> THEN <<>>
    ELSE LET last == coll[Len(coll)]
             rest == SortedBookings(SubSeq(coll, 1, Len(coll) - 1), eventId)
         IN  IF BookingMatches(last, eventId) THEN <<last>> \o rest ELSE rest

NotCalling == UNCHANGED <<bookings, calls, log, slugIn, slugOut, cached>>

\* getEventBookings up to Promise.all; an eventId that is no ObjectId makes
\* the queries throw
Bookings_Start(eventId, page, limit) ==
    /\ reads.pc = "idle" /\ results = NoResult
    /\ LET r == [IdleRead EXCEPT !.impl = "bookings",
                                 !.args = BookingsArgs(eventId, page, limit)]
       IN  IF ~IsObjectId(eventId)
           THEN results' = Caught(r) /\ reads' = reads
           ELSE reads' = [r EXCEPT !.pc = "bookings"] /\ results' = results
    /\ NotPosting /\ NotCalling

\* Booking.find(...).sort(...).skip(skip).limit(limit)
Bookings_Find ==
    /\ reads.pc = "bookings" /\ ~reads.found
    /\ IF SkipThrows(reads.args)
       THEN results' = Caught(reads) /\ reads' = IdleRead
       ELSE ListDone([reads EXCEPT
               !.found = TRUE,
               !.page = PageOf(SortedBookings(bookings, reads.args.eventId),
                               reads.args.page, reads.args.limit)])
    /\ NotPosting /\ NotCalling

\* Booking.countDocuments({eventId, status: 'confirmed'})
Bookings_Count ==
    /\ reads.pc = "bookings" /\ ~reads.counted
    /\ ListDone([reads EXCEPT !.counted = TRUE,
                              !.total = CountConfirmed(bookings, reads.args.eventId)])
    /\ NotPosting /\ NotCalling

\* one of the two queries is rejected by the store
Bookings_Fail ==
    /\ reads.pc = "bookings"
    /\ results' = Caught(reads)
    /\ reads' = IdleRead
    /\ NotPosting /\ NotCalling

(***************************************************************************)
(* getSimilarEventsBySlug, getAllEventTags, getEventStats                  *)
(***************************************************************************)
\* Event.findOne({slug})
FindOneBySlug(coll, slug) ==
    IF \E i \in 1..Len(coll) : coll[i].slug = slug
    THEN coll[CHOOSE i \in 1..Len(coll) : coll[i].slug = slug]
    ELSE NoEvent

SharesTag_any(tags, others) == TRUE

\* tags: {$in: referenceEvent.tags}: some element of tags equals one of others
SharesTag(tags, others) ==
    \E j \in 1..Len(tags), k \in 1..Len(others) : tags[j] = others[k]

\* {_id: {$ne: referenceEvent._id}, tags: {$in: referenceEvent.tags}, date: {$gte: today}}
SimilarMatches(event, refId, refTags, today) ==
    /\ event.id # refId
    /\ SharesTag(event.tags, refTags)
    /\ DateFilter(event, today)

\* .sort({date: 1, createdAt: -1}): the matching events in that order
SortedSimilar(coll, refId, refTags, today) ==
    LET hit == {i \in 1..Len(coll) : SimilarMatches(coll[i], refId, refTags, today)}
        n == Cardinality(hit)
        order == CHOOSE o \in [1..n -> hit] :
                    /\ \A j, k \in 1..n : o[j] = o[k] => j = k
                    /\ \A j, k \in 1..n :
                          j < k => SortsBefore("date-created", coll[o[j]], coll[o[k]])
    IN  [k \in 1..n |-> coll[order[k]]]

\* .limit(limit)
Limit(sorted, limit) ==
    SubSeq(sorted, 1, IF limit < Len(sorted) THEN limit ELSE Len(sorted))

SimilarArgs(slug, limit) == [NoArgs EXCEPT !.slug = slug, !.limit = limit]

\* getSimilarEventsBySlug up to the second query: the reference event is
\* looked up; without it the call returns []; with it the query is built
\* with today's date.  ok is whether the store answered
Similar_Start(slug, limit, ok) ==
    /\ reads.pc = "idle" /\ results = NoResult
    /\ LET r == [IdleRead EXCEPT !.impl = "similar", !.args = SimilarArgs(slug, limit),
                                 !.today = UtcDay(clock)]
           referenceEvent == FindOneBySlug(events, slug)
       IN  IF ~ok
           THEN results' = Caught(r) /\ reads' = reads
           ELSE IF referenceEvent = NoEvent
           THEN results' = Result(r, 0, <<>>, 0) /\ reads' = reads
           ELSE /\ reads' = [r EXCEPT !.pc = "similar", !.refId = referenceEvent.id,
                                      !.refTags = referenceEvent.tags]
                /\ results' = results
    /\ NotPosting /\ NotBooking

\* Event.find(...).sort(...).limit(limit) and the return
Similar_Find(ok) ==
    /\ reads.pc = "similar"
    /\ results' =
          IF ok
          THEN Result(reads, 0, Limit(SortedSimilar(events, reads.refId, reads.refTags,
                                                    reads.today),
                                      reads.args.limit), 0)
          ELSE Caught(reads)
    /\ reads' = IdleRead
    /\ NotPosting /\ NotBooking

\* Event.distinct('tags'): each tag value once, in the store's order
RECURSIVE Distinct(_)
Distinct(seq) ==
    IF seq = <<>> THEN <<>>
    ELSE LET rest == Distinct(SubSeq(seq, 1, Len(seq) - 1))
             last == seq[Len(seq)]
         IN  IF \E k \in 1..Len(rest) : rest[k] = last THEN rest ELSE Append(rest, last)

RECURSIVE AllTags(_)
AllTags(coll) == IF coll = <<>> THEN <<>> ELSE Head(coll).tags \o AllTags(Tail(coll))

\* tag && tag.trim() !== ''
IsNonBlank(tag) == Trim(tag) # <<>>

\* getAllEventTags: the result's events field carries the tags
GetAllEventTags(ok) ==
    /\ reads.pc = "idle" /\ results = NoResult
    /\ LET r == [IdleRead EXCEPT !.impl = "tags"]
       IN  results' = IF ok
                      THEN Result(r, 0, SelectSeq(Distinct(AllTags(events)), IsNonBlank), 0)
                      ELSE Caught(r)
    /\ reads' = reads
    /\ NotPosting /\ NotBooking

\* the filter of each of the four countDocuments of getEventStats
StatMatches(name, event, today) ==
    /\ DateFilter(event, today)
    /\ name = "onlineEvents" => event.mode = "online"
    /\ name = "offlineEvents" => event.mode = "offline"
    /\ name = "hybridEvents" => event.mode = "hybrid"

\* getEventStats up to Promise.all: today is taken once
Stats_Start(ok) ==
    /\ reads.pc = "idle" /\ results = NoResult
    /\ LET r == [IdleRead EXCEPT !.impl = "stats", !.today = UtcDay(clock)]
       IN  IF ok
           THEN reads' = [r EXCEPT !.pc = "stats"] /\ results' = results
           ELSE results' = Caught(r) /\ reads' = reads
    /\ NotPosting /\ NotBooking

\* one of the four counts is answered, in any order; the last one returns,
\* a failed one ends the call in its catch block
Stats_Count(name, ok) ==
    /\ reads.pc = "stats" /\ reads.counts[name] = NotCounted
    /\ LET n == Cardinality({i \in 1..Len(events) :
                                StatMatches(name, events[i], reads.today)})
           r == [reads EXCEPT !.counts[name] = n]
       IN  IF ~ok
           THEN results' = Caught(reads) /\ reads' = IdleRead
           ELSE IF \A k \in StatNames : r.counts[k] # NotCounted
           THEN results' = Result(r, 0, <<>>, 0) /\ reads' = IdleRead
           ELSE reads' = r /\ results' = results
    /\ NotPosting /\ NotBooking

(***************************************************************************)
(* GET /api/events/[slug]                                                  *)
(***************************************************************************)
\* slug.trim().toLowerCase()
SanitizeSlug(slug) == ToLowerCase(Trim(slug))

\* !slug || typeof slug !== 'string' || slug.trim() === ''
IsBlankSlug(slug) == Trim(slug) = <<>>

SlugArgs(slug) == [NoArgs EXCEPT !.slug = slug]

\* where the handler can throw, and what its catch block answers: 503 when
\* the error's message names the connection, 500 otherwise
FailPoints == {"none", "connectDB", "findOne"}
CatchStatuses == {500, 503}

\* the whole handler: connectDB, the blank check, findOne, the response.
\* The result keeps how many events the store held at the lookup (total)
GET_BySlug(slug, failAt, status) ==
    /\ reads.pc = "idle" /\ results = NoResult
    /\ LET r == [IdleRead EXCEPT !.impl = "slug", !.args = SlugArgs(slug),
                                 !.total = Len(events)]
           sanitizedSlug == SanitizeSlug(slug)
           event == FindOneBySlug(events, sanitizedSlug)
       IN  results' =
              IF failAt = "connectDB"
              THEN [Result(r, status, <<>>, 0) EXCEPT !.caught = TRUE]
              ELSE IF IsBlankSlug(slug) THEN Result(r, 400, <<>>, 0)
              ELSE IF failAt = "findOne"
              THEN [Result(r, status, <<>>, 0) EXCEPT !.caught = TRUE]
              ELSE IF event = NoEvent THEN Result(r, 404, <<>>, 0)
              ELSE Result(r, 200, <<event>>, 0)
    /\ reads' = reads
    /\ NotPosting /\ NotBooking

NoRequests ==
    /\ clock = StartClock /\ tzOffset = 0
    /\ posts = [p \in Posters |-> IdlePost] /\ images = 0 /\ responses = <<>>
    /\ reads = IdleRead /\ results = NoResult
    /\ cached = ColdCache

NoSlugOut == [fn |-> "none", slug |-> NoSlug]
NoSlugCall == slugIn = <<>> /\ slugOut = NoSlugOut

(***************************************************************************)
(* Booking actions: createBooking, cancelBooking                           *)
(***************************************************************************)
Callers == {1, 2}

IdleCall == [pc |-> "idle", eventId |-> BadId, email |-> <<>>, nameLen |-> 0,
             counted |-> 0]

InFlight == {p \in Callers : calls[p].pc # "idle"}

\* arguments offered to createBooking: events 1 and 2 exist, 3 does not,
\* BadId is not an ObjectId; "ax" is not an email; a full name is given by
\* its trimmed length
Req(eventId, email, nameLen) == [eventId |-> eventId, email |-> email, nameLen |-> nameLen]
Requests ==
    {Req(1, <<"a", "@", "x">>, 1), Req(1, <<" ", "A", "@", "x">>, 1),
     Req(1, <<"b", "@", "x">>, 1), Req(1, <<"x", "@", "x">>, 1),
     Req(1, <<"a", "x">>, 1), Req(1, <<"b", "@", "x">>, 0),
     Req(1, <<"b", "@", "x">>, MaxFullNameLength + 1),
     Req(2, <<"a", "@", "x">>, 1),
     Req(3, <<"a", "@", "x">>, 1), Req(3, <<"a", "x">>, 1),
     Req(BadId, <<"a", "@", "x">>, 1)}

\* an event document as stored by a successful creation
SeedEvent(id, title, capacity) ==
    [id |-> id, title |-> title, slug |-> generateSlug(title),
     description |-> <<"d">>, organizer |-> <<"o">>, location |-> <<"l">>,
     tags |-> << <<"a">> >>, date |-> 1, mode |-> "online", capacity |-> capacity]

\* calls made so far, returned or not
CallsStarted == Len(log) + Cardinality(InFlight)

\* the value a createBooking call returns, with what the call observed
CreateEntry(c, email, success, message, err, atInsert, bookingId) ==
    [op |-> "create", eventId |-> c.eventId, email |-> email, rawEmail |-> c.email,
     nameLen |-> c.nameLen, bookingId |-> bookingId, counted |-> c.counted,
     atInsert |-> atInsert, success |-> success, message |-> message,
     err |-> err.name]

Return(p, entry) ==
    /\ log' = Append(log, entry)
    /\ calls' = [calls EXCEPT ![p] = IdleCall]

Unrelated ==
    UNCHANGED <<clock, tzOffset, posts, images, responses, reads, results,
                slugIn, slugOut, cached>>

\* createBooking up to the capacity branch: connectDB, Event.findById, if (!event)
CB_Start(p, eventId, email, nameLen) ==
    /\ calls[p].pc = "idle"
    /\ \A q \in Callers : q < p => calls[q].pc # "idle"
    /\ LET c     == [IdleCall EXCEPT !.eventId = eventId, !.email = email,
                                     !.nameLen = nameLen]
           event == IF IsObjectId(eventId) THEN FindById(events, NoEvent, eventId)
                    ELSE NoEvent
           rest  == calls
       IN  IF ~IsObjectId(eventId)
           THEN /\ log' = Append(log, CreateEntry(c, NormalizeEmail(email), FALSE,
                                    CatchMessage(ErrCast, <<>>), ErrCast, 0, BadId))
                /\ calls' = rest
           ELSE IF EventMissing(event)
           THEN /\ log' = Append(log, CreateEntry(c, NormalizeEmail(email), FALSE,
                                    <<NOT_FOUND>>, NoError, 0, BadId))
                /\ calls' = rest
           ELSE /\ calls' = [rest EXCEPT ![p] =
                               [c EXCEPT !.pc = IF event.capacity # NoCapacity
                                                THEN "count" ELSE "save"]]
                /\ log' = log
    /\ UNCHANGED <<events, bookings>>
    /\ Unrelated

\* Booking.countDocuments({eventId, status: 'confirmed'}) and the capacity test
CB_Count(p) ==
    /\ calls[p].pc = "count"
    /\ LET c == calls[p]
           n == CountConfirmed(bookings, c.eventId)
           event == FindById(events, NoEvent, c.eventId)
           seen == [c EXCEPT !.counted = n]
       IN  IF CapacityReached(n, event.capacity)
           THEN Return(p, CreateEntry(seen, NormalizeEmail(c.email), FALSE,
                                      <<EVENT_FULL>>, NoError, 0, BadId))
           ELSE /\ calls' = [calls EXCEPT ![p] = [seen EXCEPT !.pc = "save"]]
                /\ log' = log
    /\ UNCHANGED <<events, bookings>>
    /\ Unrelated

\* Booking.create: setters, validation, then the first query of the
\* pre('save') hook, Event.findById(booking.eventId)
CB_Save(p) ==
    /\ calls[p].pc = "save"
    /\ LET c == calls[p]
           email == NormalizeEmail(c.email)
           errors == BookingValidationErrors(email, c.nameLen)
       IN  IF errors # <<>>
           THEN Return(p, CreateEntry(c, email, FALSE,
                          CatchMessage(ErrValidation, errors), ErrValidation, 0, BadId))
           ELSE IF FindById(events, NoEvent, c.eventId) = NoEvent
           THEN Return(p, CreateEntry(c, email, FALSE,
                          CatchMessage(ErrHookNoEvent, <<>>), ErrHookNoEvent, 0, BadId))
           ELSE /\ calls' = [calls EXCEPT ![p].pc = "hookDup"]
                /\ log' = log
    /\ UNCHANGED <<events, bookings>>
    /\ Unrelated

\* the second query of the pre('save') hook: Booking.findOne({eventId, email, ...})
CB_HookDup(p) ==
    /\ calls[p].pc = "hookDup"
    /\ LET c == calls[p]
           email == NormalizeEmail(c.email)
       IN  IF HookFindsExisting(bookings, c.eventId, email)
           THEN Return(p, CreateEntry(c, email, FALSE,
                          CatchMessage(ErrHookExisting, <<>>), ErrHookExisting, 0, BadId))
           ELSE /\ calls' = [calls EXCEPT ![p].pc = "insert"]
                /\ log' = log
    /\ UNCHANGED <<events, bookings>>
    /\ Unrelated

\* the insert of save(), checked by the unique index, and the success return
CB_Insert(p) ==
    /\ calls[p].pc = "insert"
    /\ LET c == calls[p]
           email == NormalizeEmail(c.email)
           id == Len(bookings) + 1
       IN  IF UniqueIndexViolated(bookings, c.eventId, email)
           THEN /\ Return(p, CreateEntry(c, email, FALSE,
                             CatchMessage(ErrE11000, <<>>), ErrE11000, 0, BadId))
                /\ bookings' = bookings
           ELSE /\ bookings' = Append(bookings,
                        [id |-> id, eventId |-> c.eventId, email |-> email,
                         nameLen |-> c.nameLen, status |-> "confirmed"])
                /\ Return(p, CreateEntry(c, email, TRUE, <<BOOKING_CREATED>>, NoError,
                                         CountConfirmed(bookings, c.eventId), id))
    /\ UNCHANGED events
    /\ Unrelated

Cancelled_overwrite(booking) ==
    [NoBooking EXCEPT !.id = booking.id, !.status = "cancelled"]

\* the update {status: 'cancelled'}: the other paths of the document stay
Cancelled(booking) == [booking EXCEPT !.status = "cancelled"]

\* cancelBooking: Booking.findByIdAndUpdate(bookingId, {status: 'cancelled'})
CancelBooking(bookingId) ==
    /\ calls' = calls
    /\ LET b == IF IsObjectId(bookingId) THEN FindById(bookings, NoBooking, bookingId)
                ELSE NoBooking
           entry == [op |-> "cancel", eventId |-> b.eventId, email |-> b.email,
                     rawEmail |-> b.email, nameLen |-> b.nameLen, bookingId |-> bookingId,
                     counted |-> 0, atInsert |-> 0,
                     success |-> FALSE, message |-> <<SERVER_ERROR>>,
                     err |-> ErrCast.name]
       IN  IF ~IsObjectId(bookingId)
           THEN /\ log' = Append(log, entry)
                /\ bookings' = bookings
           ELSE IF b = NoBooking
           THEN /\ log' = Append(log, [entry EXCEPT !.message = <<NOT_FOUND>>,
                                                    !.err = NoError.name])
                /\ bookings' = bookings
           ELSE /\ bookings' = [bookings EXCEPT ![bookingId] = Cancelled(b)]
                /\ log' = Append(log, [entry EXCEPT !.success = TRUE,
                                                    !.message = <<BOOKING_CANCELLED>>,
                                                    !.err = NoError.name])
    /\ UNCHANGED events
    /\ Unrelated

Init ==
    /\ \E capacity \in 1..MaxCapacity :
          events = <<SeedEvent(1, <<"M", "y">>, capacity),
                     SeedEvent(2, <<"T", "a">>, NoCapacity)>>
    /\ bookings = <<>>
    /\ calls = [p \in Callers |-> IdleCall]
    /\ log = <<>>
    /\ NoRequests /\ NoSlugCall

\* callers overlap freely
Next ==
    \/ \E p \in Callers, r \in Requests :
          CallsStarted < MaxRaceCalls /\ CB_Start(p, r.eventId, r.email, r.nameLen)
    \/ \E p \in Callers : CB_Count(p)
    \/ \E p \in Callers : CB_Save(p)
    \/ \E p \in Callers : CB_HookDup(p)
    \/ \E p \in Callers : CB_Insert(p)
    \/ \E bookingId \in 0..(Len(bookings) + 1) :
          CallsStarted < MaxRaceCalls /\ CancelBooking(bookingId)

Spec == Init /\ [][Next]_vars

\* one call at a time: a call starts only when the previous one has returned
SeqStart(p, r) ==
    InFlight = {} /\ CallsStarted < MaxCalls /\ CB_Start(p, r.eventId, r.email, r.nameLen)

SeqCancel(bookingId) ==
    InFlight = {} /\ CallsStarted < MaxCalls /\ CancelBooking(bookingId)

NextSeq ==
    \/ \E p \in Callers, r \in Requests : SeqStart(p, r)
    \/ \E p \in Callers : CB_Count(p)
    \/ \E p \in Callers : CB_Save(p)
    \/ \E p \in Callers : CB_HookDup(p)
    \/ \E p \in Callers : CB_Insert(p)
    \/ \E bookingId \in 0..(Len(bookings) + 1) : SeqCancel(bookingId)

SpecSeq == Init /\ [][NextSeq]_vars

(***************************************************************************)
(* Event creation under a running clock                                    *)
(***************************************************************************)
\* a form that passes every check but, possibly, the date and slug rules
ValidForm(title, date) ==
    [title |-> title, date |-> date, mode |-> "online", tags |-> << <<"a">> >>,
     agendaLen |-> 1, organizer |-> <<"o">>, capacity |-> NoCapacity,
     image |-> "image/png", imageSize |-> 1]

\* a valid form that differs from the others in slug, mode, tags and organizer
OtherForm ==
    [ValidForm(<<"x">>, MaxDay) EXCEPT !.mode = "hybrid", !.tags = << <<"B">> >>,
                                       !.organizer = <<"m">>]

Titles == {<<"M", "y", " ", "T">>, <<"m", "y", " ", "t">>}

Forms ==
    {ValidForm(t, d) : t \in Titles, d \in 0..MaxDay}
    \cup {OtherForm,
          [ValidForm(<<"x">>, MaxDay) EXCEPT !.date = BadDate],
          [ValidForm(<<"x">>, MaxDay) EXCEPT !.mode = "virtual"],
          [ValidForm(<<"x">>, MaxDay) EXCEPT !.title = <<>>],
          [ValidForm(<<"x">>, MaxDay) EXCEPT !.title = <<" ">>],
          [ValidForm(<<"x">>, MaxDay) EXCEPT !.image = NoImage],
          [ValidForm(<<"x">>, MaxDay) EXCEPT !.image = "image/gif"],
          [ValidForm(<<"x">>, MaxDay) EXCEPT !.imageSize = MaxImageSize + 1]}

InitEvents ==
    /\ events = <<>>
    /\ clock = StartClock
    /\ tzOffset \in Offsets
    /\ posts = [p \in Posters |-> IdlePost]
    /\ images = 0
    /\ responses = <<>>
    /\ reads = IdleRead /\ results = NoResult
    /\ cached = ColdCache
    /\ bookings = <<>> /\ calls = [p \in Callers |-> IdleCall] /\ log = <<>>
    /\ NoSlugCall

NextEvents ==
    \/ \E p \in Posters, form \in Forms : PostsStarted < MaxPosts /\ POST_Start(p, form)
    \/ \E p \in Posters, ok \in BOOLEAN : POST_Upload(p, ok)
    \/ \E p \in Posters : POST_Create(p)
    \/ Tick

SpecEvents == InitEvents /\ [][NextEvents]_vars

(***************************************************************************)
(* Listing next to event creation                                          *)
(***************************************************************************)
ListForms == {ValidForm(<<"M", "y", " ", "T">>, d) : d \in 0..MaxDay} \cup {OtherForm}

Impls == {"action", "route", "search"}

Queries ==
    {NoArgs,
     Args(1, 1, <<>>, "", <<>>, "date-desc"),
     Args(2, 1, <<>>, "", <<>>, "created"),
     Args(1, 12, <<"M">>, "", <<>>, "popular"),
     Args(1, 12, <<".">>, "online", <<>>, ""),
     Args(1, 12, <<"(">>, "", <<>>, ""),
     Args(1, 12, <<>>, "hybrid", <<"b">>, "date"),
     Args(1, 12, <<" ">>, "virtual", <<"B">>, "bogus")}

\* query strings only GET can get: page and limit out of range
RouteQueries == Queries \cup {Args(0, 0, <<>>, "", <<>>, "date")}

\* pages the events page can pass on: parseInt of the page parameter
ActionQueries == Queries \cup {Args(0, 1, <<>>, "", <<>>, "date")}

\* searchEvents(query, page, limit)
SearchQueries ==
    {Args(page, 1, search, "", <<>>, "") :
        page \in 0..2, search \in {<<>>, <<"M">>, <<"(">>}}

QueriesOf(impl) ==
    IF impl = "route" THEN RouteQueries
    ELSE IF impl = "search" THEN SearchQueries
    ELSE ActionQueries

\* the listing reads the UTC day only, and a server on UTC can store every
\* event a server at another offset can: creations come one at a time from
\* a server on UTC
ListPosters == {1}

InitList ==
    /\ events = <<>>
    /\ bookings = <<>> /\ calls = [p \in Callers |-> IdleCall] /\ log = <<>>
    /\ NoRequests
    /\ NoSlugCall

NextList ==
    \/ \E p \in ListPosters, form \in ListForms :
          PostsStarted < MaxPosts /\ POST_Start(p, form)
    \/ \E p \in ListPosters, ok \in BOOLEAN : POST_Upload(p, ok)
    \/ \E p \in ListPosters : POST_Create(p)
    \/ Tick
    \/ \E impl \in Impls : \E args \in QueriesOf(impl) : List_Start(impl, args)
    \/ List_Count
    \/ List_Find
    \/ List_Fail

SpecList == InitList /\ [][NextList]_vars

(***************************************************************************)
(* Similar events, tags and statistics next to event creation              *)
(***************************************************************************)
MaxReadPosts == 3

\* events A, B, C: B shares a tag with A; C has A's tag in another letter case
TagForm(title, tags, mode, date) ==
    [ValidForm(title, date) EXCEPT !.tags = tags, !.mode = mode]

ReadForms ==
    {TagForm(<<"a">>, << <<"X">>, <<"y">> >>, "online", MaxDay)}
    \cup {TagForm(<<"b">>, << <<"y">> >>, "offline", d) : d \in 1..MaxDay}
    \cup {TagForm(<<"m">>, << <<"x">>, <<" ">> >>, "hybrid", MaxDay)}

ReadSlugs == {<<"a">>, <<"b">>, <<"t">>}
ReadLimits == {1, 3}

NextReads ==
    \/ \E p \in ListPosters, form \in ReadForms :
          PostsStarted < MaxReadPosts /\ POST_Start(p, form)
    \* an upload that fails stores nothing, like a creation never made
    \/ \E p \in ListPosters : POST_Upload(p, TRUE)
    \/ \E p \in ListPosters : POST_Create(p)
    \/ Tick
    \/ \E slug \in ReadSlugs, limit \in ReadLimits, ok \in BOOLEAN :
          Similar_Start(slug, limit, ok)
    \/ \E ok \in BOOLEAN : Similar_Find(ok)
    \/ \E ok \in BOOLEAN : GetAllEventTags(ok)
    \/ \E ok \in BOOLEAN : Stats_Start(ok)
    \/ \E name \in StatNames, ok \in BOOLEAN : Stats_Count(name, ok)
    \/ \E impl \in Impls : List_Start(impl, NoArgs)
    \/ List_Count
    \/ List_Find
    \/ List_Fail
    \/ Bookings_Start(1, 1, MaxLimit)
    \/ Bookings_Find
    \/ Bookings_Count
    \/ Bookings_Fail

SpecReads == InitList /\ [][NextReads]_vars

(***************************************************************************)
(* connectDB on its own                                                    *)
(***************************************************************************)
MaxConnectCalls == 4

InitConnect == InitList

NextConnect ==
    \/ \E c \in Clients : ConnectCalls(cached) < MaxConnectCalls /\ ConnectDB_Call(c)
    \/ \E k \in Pending(cached), ok \in BOOLEAN : Connect_Settle(k, ok)
    \/ Run_Handler
    \/ \E again \in BOOLEAN : Run_Resume(again)
    \/ Skip_Followup
    \/ Connection_Drop
    \/ Connection_Reconnect

SpecConnect == InitConnect /\ [][NextConnect]_vars

(***************************************************************************)
(* Event creation at the limits of title and agenda                        *)
(***************************************************************************)
MaxBoundaryPosts == 3

TitleOfLength(n) == [i \in 1..n |-> "a"]

BoundaryForms ==
    {[ValidForm(TitleOfLength(n), MaxDay) EXCEPT !.agendaLen = a] :
        n \in {MaxTitleLength, MaxTitleLength + 1}, a \in {0, 1}}
    \cup {ValidForm(<<" ">> \o TitleOfLength(MaxTitleLength) \o <<" ">>, MaxDay),
          ValidForm(<<"b">>, MaxDay)}

NextBoundary ==
    \/ \E p \in ListPosters, form \in BoundaryForms :
          PostsStarted < MaxBoundaryPosts /\ POST_Start(p, form)
    \/ \E p \in ListPosters, ok \in BOOLEAN : POST_Upload(p, ok)
    \/ \E p \in ListPosters : POST_Create(p)

SpecBoundary == InitList /\ [][NextBoundary]_vars

(***************************************************************************)
(* Lookup by slug next to event creation                                   *)
(***************************************************************************)
\* titles whose slugs are "my-t", "x" and the empty string
LookupForms ==
    {ValidForm(<<"M", "y", " ", "T">>, MaxDay), OtherForm, ValidForm(<<"!">>, MaxDay)}

LookupSlugs ==
    {<<"x">>, <<"X">>, <<" ", "X", " ">>, <<"M", "Y", "-", "T">>, <<"m", "y", "-", "t">>,
     <<"t">>, <<" ">>, <<>>}

NextLookup ==
    \/ \E p \in ListPosters, form \in LookupForms :
          PostsStarted < MaxReadPosts /\ POST_Start(p, form)
    \/ \E p \in ListPosters, ok \in BOOLEAN : POST_Upload(p, ok)
    \/ \E p \in ListPosters : POST_Create(p)
    \/ \E slug \in LookupSlugs, failAt \in FailPoints, status \in CatchStatuses :
          GET_BySlug(slug, failAt, status)

SpecLookup == InitList /\ [][NextLookup]_vars

(***************************************************************************)
(* Listing order next to event creation                                    *)
(***************************************************************************)
\* three events, two of them on the same day
SortForms ==
    {ValidForm(<<"a">>, MaxDay), ValidForm(<<"b">>, MaxDay - 1),
     ValidForm(<<"c">>, MaxDay)}

SortKeys == {"", "date", "date-desc", "created", "popular", "bogus"}

NextSort ==
    \/ \E p \in ListPosters, form \in SortForms :
          PostsStarted < MaxReadPosts /\ POST_Start(p, form)
    \/ \E p \in ListPosters : POST_Upload(p, TRUE)
    \/ \E p \in ListPosters : POST_Create(p)
    \/ \E impl \in {"action", "route"}, sort \in SortKeys :
          List_Start(impl, [NoArgs EXCEPT !.sort = sort])
    \/ List_Count
    \/ List_Find

SpecSort == InitList /\ [][NextSort]_vars

(***************************************************************************)
(* getEventBookings next to bookings and cancellations                     *)
(***************************************************************************)
BookingRequests ==
    {Req(e, m, 1) : e \in {1, 2}, m \in {<<"a", "@", "x">>, <<"b", "@", "x">>}}

NextBookings ==
    \/ \E p \in Callers, r \in BookingRequests : SeqStart(p, r)
    \/ \E p \in Callers : CB_Count(p)
    \/ \E p \in Callers : CB_Save(p)
    \/ \E p \in Callers : CB_HookDup(p)
    \/ \E p \in Callers : CB_Insert(p)
    \/ \E bookingId \in 1..Len(bookings) : SeqCancel(bookingId)
    \/ \E eventId \in {1, 2}, limit \in {1, MaxLimit} : Bookings_Start(eventId, 1, limit)
    \/ Bookings_Find
    \/ Bookings_Count

SpecBookings == Init /\ [][NextBookings]_vars

(***************************************************************************)
(* generateSlug on its own                                                 *)
(***************************************************************************)
SlugInputChars == {"a", "B", "1", " ", "-", "_", "!"}

SlugInputs == UNION {[1..n -> SlugInputChars] : n \in 0..MaxTitleLen}

InitSlug ==
    /\ slugIn \in SlugInputs
    /\ slugOut = NoSlugOut
    /\ events = <<>>
    /\ bookings = <<>> /\ calls = [p \in Callers |-> IdleCall] /\ log = <<>>
    /\ NoRequests

SlugFrame ==
    UNCHANGED <<events, bookings, calls, log, clock, tzOffset, posts, images,
                responses, reads, results, slugIn, cached>>

\* generateSlug(event.title) of the pre('save') hook
Slug_Model ==
    /\ slugOut = NoSlugOut
    /\ slugOut' = [fn |-> "model", slug |-> generateSlug(slugIn)]
    /\ SlugFrame

\* generateSlug(text) of lib/utils
Slug_Utils ==
    /\ slugOut = NoSlugOut
    /\ slugOut' = [fn |-> "utils", slug |-> utilsGenerateSlug(slugIn)]
    /\ SlugFrame

NextSlug == Slug_Model \/ Slug_Utils

SpecSlug == InitSlug /\ [][NextSlug]_vars


(***************************************************************************)
(* Properties of createBooking / cancelBooking                             *)
(***************************************************************************)
EntriesOf(eventId) == {i \in 1..Len(log) : log[i].eventId = eventId}

ValidFields(entry) == BookingValidationErrors(entry.email, entry.nameLen) = <<>>

SamePair(a, b) == a.eventId = b.eventId /\ a.email = b.email

BookingsOf(eventId) == {i \in 1..Len(bookings) : bookings[i].eventId = eventId}

Min(a, b) == IF a <= b THEN a ELSE b

\* every completed call on the event was a createBooking with valid fields,
\* and no two of them gave the same email
DistinctValidCreates(eventId) ==
    \A i \in EntriesOf(eventId) :
        /\ log[i].op = "create"
        /\ ValidFields(log[i])
        /\ \A j \in EntriesOf(eventId) : j # i => log[j].email # log[i].email

Rank(eventId, i) == Cardinality({j \in EntriesOf(eventId) : j <= i})

\* C1: on an event with capacity c and no prior bookings, sequential
\* createBooking calls with distinct valid emails succeed for the first c
\* calls; every later one returns "Event is at full capacity" and writes
\* nothing, so the event holds min(calls, c) bookings, all confirmed.
C1_SequentialCapacity ==
    \A k \in 1..Len(events) :
        LET e == events[k] IN
        (e.capacity # NoCapacity /\ DistinctValidCreates(e.id)) =>
            /\ \A i \in EntriesOf(e.id) :
                  IF Rank(e.id, i) <= e.capacity
                  THEN log[i].success
                  ELSE /\ ~log[i].success
                       /\ log[i].message = <<EVENT_FULL>>
                       /\ log[i].bookingId = BadId
            /\ Cardinality(BookingsOf(e.id)) = Min(Cardinality(EntriesOf(e.id)), e.capacity)
            /\ CountConfirmed(bookings, e.id) = Cardinality(BookingsOf(e.id))

C1_Witness ==
    \E k \in 1..Len(events) :
        LET e == events[k] IN
        /\ e.capacity >= 2
        /\ DistinctValidCreates(e.id)
        /\ Cardinality(EntriesOf(e.id)) = e.capacity + 1
        /\ log[Len(log)].eventId = e.id
        /\ log[Len(log)].message = <<EVENT_FULL>>
        /\ CountConfirmed(bookings, e.id) = e.capacity

\* C2: a sequential createBooking for a pair (event, email) that already has
\* a booking returns the duplicate-booking message and stores nothing, and a
\* createBooking with a new email on an event with room succeeds.
C2_DuplicateOutcome ==
    \A i \in 1..Len(log) :
        (log[i].op = "create" /\ ValidFields(log[i])
            /\ FindById(events, NoEvent, log[i].eventId) # NoEvent
            /\ log[i].message # <<EVENT_FULL>>) =>
            IF \E j \in 1..(i - 1) :
                   log[j].op = "create" /\ log[j].success /\ SamePair(log[j], log[i])
            THEN ~log[i].success /\ log[i].message = <<DUPLICATE_BOOKING>>
            ELSE log[i].success

\* C3: a createBooking whose eventId is an ObjectId of no event returns
\* "Resource not found", and the step that returns it leaves the booking
\* collection as it was when the call began.
C3_MissingEventNoWrite ==
    [][Len(log') = Len(log) + 1 =>
        LET e == log'[Len(log')] IN
        (e.op = "create" /\ IsObjectId(e.eventId)
            /\ FindById(events, NoEvent, e.eventId) = NoEvent) =>
            /\ ~e.success
            /\ e.message = <<NOT_FOUND>>
            /\ calls = calls'
            /\ bookings' = bookings]_vars

C3_Witness ==
    /\ bookings # <<>>
    /\ log # <<>>
    /\ log[Len(log)].op = "create"
    /\ log[Len(log)].eventId = 3
    /\ log[Len(log)].message = <<NOT_FOUND>>

\* C4: no two bookings, whatever their status, have the same event and the
\* same normalized email.
C4_UniquePair ==
    \A i, j \in 1..Len(bookings) :
        (bookings[i].eventId = bookings[j].eventId
            /\ bookings[i].email = bookings[j].email) => i = j

\* two overlapping calls for one pair both passed the hook; the index
\* rejected the second insert
C4_Witness ==
    \E i \in 1..Len(log) : log[i].op = "create" /\ log[i].err = ErrE11000.name

\* C5: once a booking for (event, email) has been cancelled, a later
\* createBooking for the same pair is rejected with the duplicate-booking
\* message.
C5_CancelledStillDuplicate ==
    \A i \in 1..Len(log) :
        (log[i].op = "create" /\ ValidFields(log[i])
            /\ log[i].message # <<EVENT_FULL>>
            /\ \E j \in 1..(i - 1) :
                   log[j].op = "cancel" /\ log[j].success /\ SamePair(log[j], log[i])) =>
            ~log[i].success /\ log[i].message = <<DUPLICATE_BOOKING>>

\* C6: the count of createBooking is not atomic with its insert: an event
\* holds more confirmed bookings than its capacity only after a call that
\* counted fewer than capacity inserted when the event was already full.
C6_OvershootOnlyByRace ==
    \A k \in 1..Len(events) :
        LET e == events[k] IN
        (e.capacity # NoCapacity /\ CountConfirmed(bookings, e.id) > e.capacity) =>
            \E i \in EntriesOf(e.id) :
                /\ log[i].op = "create" /\ log[i].success
                /\ log[i].counted < e.capacity
                /\ log[i].atInsert >= e.capacity

\* both calls counted when one slot remained, both inserted
C6_Witness ==
    \E k \in 1..Len(events) :
        LET e == events[k] IN
        /\ e.capacity # NoCapacity
        /\ CountConfirmed(bookings, e.id) > e.capacity
        /\ \E i, j \in EntriesOf(e.id) :
              /\ i # j
              /\ log[i].success /\ log[j].success
              /\ log[i].counted = e.capacity - 1
              /\ log[j].counted = e.capacity - 1
              /\ log[i].email # log[j].email

(***************************************************************************)
(* Properties of event creation                                            *)
(***************************************************************************)
\* the hook's verdict on the form's date at the time the response was made
WasInPast(r) == ParseDate(r.form.date) < r.localDay * HoursPerDay - tzOffset

\* the request reached Event.create and passed validation and the date rule
ReachedInsert(r) == r.stage = "insert"

Created == {i \in 1..Len(responses) : responses[i].status = 201}

\* C7: when a creation reaches the insert with a slug that an event already
\* has, it is answered 409 and stores nothing; no two events share a slug,
\* and the collection holds exactly the events answered 201.
C7_UniqueSlug ==
    /\ \A i, j \in 1..Len(events) : events[i].slug = events[j].slug => i = j
    /\ Len(events) = Cardinality(Created)
    /\ \A i \in 1..Len(responses) :
          ReachedInsert(responses[i]) =>
              (responses[i].status = 409 <=>
                  \E j \in 1..(i - 1) : /\ responses[j].status = 201
                                        /\ responses[j].slug = responses[i].slug)

C7_Witness ==
    \E i \in 1..Len(responses) :
        /\ responses[i].status = 409
        /\ \E j \in 1..(i - 1) :
              /\ responses[j].status = 201
              /\ responses[j].form.title # responses[i].form.title
              /\ generateSlug(responses[j].form.title) = generateSlug(responses[i].form.title)
        /\ Len(events) = 1

\* C9: a creation dated the server's current calendar day succeeds and one
\* dated the previous calendar day fails, whatever the time of day and the
\* server's UTC offset (the form is otherwise valid and its slug is free).
C9_TodayAcceptedYesterdayRejected ==
    \A i \in 1..Len(responses) :
        LET r == responses[i] IN
        (r.stage \in {"hook", "insert"} /\ r.status # 409) =>
            /\ r.form.date = r.localDay => r.status = 201
            /\ r.form.date = r.localDay - 1 => r.status # 201

(***************************************************************************)
(* Properties of generateSlug                                              *)
(***************************************************************************)
IsSlugChar(c) == IsLower(c) \/ IsDigit(c) \/ c = "-"

\* C8: for every title, the generated slug has only characters of [a-z0-9-],
\* no leading or trailing hyphen and no two hyphens in a row; a title without
\* any letter or digit gives the empty string.
C8_SlugShape ==
    slugOut # NoSlugOut =>
        LET slug == slugOut.slug IN
        /\ \A k \in 1..Len(slug) : IsSlugChar(slug[k])
        /\ slug # <<>> => slug[1] # "-" /\ slug[Len(slug)] # "-"
        /\ \A k \in 1..(Len(slug) - 1) : ~(slug[k] = "-" /\ slug[k + 1] = "-")
        /\ (\A k \in 1..Len(slugIn) : ~IsAlnum(slugIn[k])) => slug = <<>>

C8_Witness ==
    /\ slugIn = <<"-", "B", " ", "!">>
    /\ slugOut = [fn |-> "model", slug |-> <<"b">>]

(***************************************************************************)
(* Properties of listing                                                   *)
(***************************************************************************)
\* C10: a listing result holds no event dated before the day the call took
\* as today, whatever the search, mode, tag, sort and page.
C10_NoPastEventListed ==
    (results # NoResult /\ results.impl \in {"action", "route"}) =>
        \A k \in 1..Len(results.events) : results.events[k].date >= results.today

C10_Witness ==
    /\ results # NoResult
    /\ results.impl = "action"
    /\ results.events # <<>>
    /\ \E i \in 1..Len(events) : events[i].date < results.today

\* C11: a paginated call returns totalPages = ceil(total / pageSize) for the
\* total it counted, and a page beyond totalPages is an empty sequence with
\* that totalPages, whatever page the caller passed.
C11_Pagination ==
    (results # NoResult /\ results.impl \in {"action", "search"}
        /\ ~QueryThrows(results.impl, results.args)) =>
        /\ results.totalPages = TotalPages(results.total, results.args.limit)
        /\ results.args.page > results.totalPages => results.events = <<>>

\* C12: getSimilarEventsBySlug returns at most limit events, each upcoming,
\* other than the reference event and sharing a tag with it, by date
\* ascending then createdAt descending; for an unknown slug it returns the
\* empty sequence without a failure.
C12_SimilarEvents ==
    (results # NoResult /\ results.impl = "similar" /\ ~results.caught) =>
        LET found == results.events IN
        /\ Len(found) <= results.args.limit
        /\ \A k \in 1..Len(found) :
              /\ found[k].date >= results.today
              /\ found[k].slug # results.args.slug
              /\ results.refId # 0
              /\ \E a \in 1..Len(found[k].tags), b \in 1..Len(results.refTags) :
                    found[k].tags[a] = results.refTags[b]
        /\ \A j, k \in 1..Len(found) :
              j < k => \/ found[j].date < found[k].date
                       \/ found[j].date = found[k].date /\ found[j].id > found[k].id
        /\ results.refId = 0 => found = <<>>

C12_Witness ==
    /\ results.impl = "similar" /\ ~results.caught
    /\ results.args.slug = <<"a">> /\ results.args.limit = 3
    /\ Len(events) = 3
    /\ Len(results.events) = 1
    /\ results.events[1].slug = <<"b">>
    /\ \E i \in 1..Len(events) :
          events[i].slug = <<"m">> /\ events[i].date >= results.today

\* C13: a read operation that meets a store failure returns its default
\* result: listing and search an empty list with totalPages 0, similar events
\* and tags an empty list, statistics four zeros, the bookings listing an
\* empty list with total 0 (GET /api/events answers 500 without events).
C13_ReadFailureAbsorbed ==
    (results # NoResult /\ results.caught) =>
        /\ results.events = <<>>
        /\ results.impl \in {"action", "search", "bookings"} =>
              results.totalPages = 0 /\ results.currentPage = results.args.page
        /\ results.impl = "bookings" => results.total = 0
        /\ results.impl = "stats" => results.counts = ZeroCounts
        /\ results.impl = "route" => results.status = 500

C13_Witness ==
    /\ results.caught /\ results.impl = "stats"
    /\ \E i \in 1..Len(events) : events[i].date >= results.today

(***************************************************************************)
(* Properties of connectDB                                                 *)
(***************************************************************************)
\* C14: calls made before a connection attempt settles share that attempt:
\* never are two attempts in flight, and every call suspended while an
\* attempt is pending awaits that attempt, also after several calls that
\* awaited one failed attempt have each reset the cached promise.
C14_OneAttemptInFlight ==
    /\ Cardinality(Pending(cached)) <= 1
    /\ \A k \in Pending(cached) :
          /\ cached.promise = k
          /\ k = Len(cached.attempts)

C14_Witness ==
    /\ Cardinality(Pending(cached)) = 1
    /\ \E i, j \in 1..Len(cached.history) :
          /\ i # j
          /\ cached.history[i].outcome = "rejected"
          /\ cached.history[j].outcome = "rejected"
          /\ cached.history[i].attempt = cached.history[j].attempt
    /\ Cardinality({i \in 1..Len(cached.waiters) :
                       cached.waiters[i].attempt = Len(cached.attempts)}) = 2

\* the calls made so far, returned or still awaiting
AllConnectCalls ==
    {cached.history[i] : i \in 1..Len(cached.history)}
    \cup {cached.waiters[i] : i \in 1..Len(cached.waiters)}

\* C15: once a connection attempt has failed, every call that awaited it
\* is rejected, the cached promise no longer holds the failed attempt, and
\* a later call never joins the failed attempt: it finds no promise and
\* invokes mongoose.connect anew.
C15_FailedAttemptDiscarded ==
    /\ \A i \in 1..Len(cached.history) :
          LET h == cached.history[i] IN
          (h.attempt # 0 /\ cached.attempts[h.attempt] = "rejected") =>
              h.outcome = "rejected"
    /\ cached.jobs = <<>> =>
          \A k \in 1..Len(cached.attempts) :
              cached.attempts[k] = "rejected" =>
                  /\ cached.promise # k
                  /\ \A i \in 1..Len(cached.waiters) : cached.waiters[i].attempt # k
    /\ \A w \in AllConnectCalls :
          /\ w.found # "rejected"
          /\ w.found = "none" <=> w.invoked

C15_Witness ==
    \E i, j, k \in 1..Len(cached.history) :
        /\ i < j /\ j < k
        /\ cached.history[i].attempt = 1 /\ cached.history[i].outcome = "rejected"
        /\ cached.history[j].attempt = 1 /\ cached.history[j].outcome = "rejected"
        /\ cached.history[k].attempt = 2 /\ cached.history[k].invoked
        /\ cached.history[k].outcome = "resolved"

(***************************************************************************)
(* Properties of the outcomes of event creation                            *)
(***************************************************************************)
\* C16: a creation dated before today is answered 400, as a validation
\* failure, and stores no event.
C16_PastDateIsValidationFailure ==
    /\ Len(events) = Cardinality(Created)
    /\ \A i \in 1..Len(responses) :
          (responses[i].stage \in {"hook", "insert"} /\ WasInPast(responses[i])) =>
              responses[i].status = 400

\* C17: with the other fields valid, a creation passes validation exactly
\* when its trimmed title has at most 120 characters and its agenda has at
\* least one item; a rejected creation stores no event.
C17_TitleAndAgendaLimits ==
    /\ Len(events) = Cardinality(Created)
    /\ \A i \in 1..Len(responses) :
          LET r == responses[i] IN
          r.stage \notin {"check", "upload"} =>
              /\ (Len(Trim(r.form.title)) <= 120 /\ r.form.agendaLen >= 1)
                    => r.status \in {201, 409}
              /\ (Len(Trim(r.form.title)) > 120 \/ r.form.agendaLen = 0)
                    => r.status = 400

C17_Witness ==
    \E i, j, k \in 1..Len(responses) :
        /\ Len(responses[i].form.title) = 120 /\ responses[i].form.agendaLen = 1
        /\ responses[i].status = 201
        /\ Len(responses[j].form.title) = 121 /\ responses[j].form.agendaLen = 1
        /\ responses[j].status = 400
        /\ Len(responses[k].form.title) = 120 /\ responses[k].form.agendaLen = 0
        /\ responses[k].status = 400
        /\ Len(events) = 1 /\ Len(events[1].title) = 120

C19_GetBySlug ==
    (results.impl = "slug" /\ ~results.caught) =>
        LET requested == ToLowerCase(Trim(results.args.slug))
            stored == {i \in 1..results.total : events[i].slug = requested}
        IN  /\ \A i \in stored :
                  results.status = 200 /\ results.events = <<events[i]>>
            /\ (stored = {} /\ Trim(results.args.slug) # <<>>) => results.status = 404
            /\ Trim(results.args.slug) = <<>> => results.status = 400

\* s occurs in text as a substring, letter case ignored, every character of
\* s standing for itself
IsSubstringIgnoringCase(s, text) ==
    \E off \in 0..(Len(text) - Len(s)) :
        \A k \in 1..Len(s) : ToLowerChar(s[k]) = ToLowerChar(text[off + k])

SubstringOfSomeTag(s, tags) ==
    \E k \in 1..Len(tags) : IsSubstringIgnoringCase(s, tags[k])

(***************************************************************************)
(* C20: in getUpcomingEvents an upcoming event matches a search string s,  *)
(* regular-expression metacharacters included, iff s is a case-insensitive *)
(* substring of its title, description, organizer, location or one of its  *)
(* tags, and matches a tag filter t iff t is a case-insensitive substring  *)
(* of one of its tags; with both given it satisfies both.  Every event the *)
(* call returns is held to that.                                           *)
(***************************************************************************)
C20_SubstringSearch ==
    results.impl = "action" =>
        \A k \in 1..Len(results.events) :
            LET event == results.events[k]
                s == results.args.search
                t == results.args.tag
            IN  /\ \/ IsSubstringIgnoringCase(s, event.title)
                   \/ IsSubstringIgnoringCase(s, event.description)
                   \/ IsSubstringIgnoringCase(s, event.organizer)
                   \/ IsSubstringIgnoringCase(s, event.location)
                   \/ SubstringOfSomeTag(s, event.tags)
                /\ SubstringOfSomeTag(t, event.tags)

C22_CancelFrame ==
    [][/\ (Len(log') = Len(log) + 1 /\ log'[Len(log')].op = "cancel") =>
             LET e == log'[Len(log')]
                 id == e.bookingId
             IN  /\ events' = events
                 /\ Len(bookings') = Len(bookings)
                 /\ \A i \in 1..Len(bookings) : i # id => bookings'[i] = bookings[i]
                 /\ id \in 1..Len(bookings) =>
                       /\ bookings'[id].status = "cancelled"
                       /\ bookings'[id].eventId = bookings[id].eventId
                       /\ bookings'[id].email = bookings[id].email
                       /\ bookings'[id].nameLen = bookings[id].nameLen
                 /\ (IsObjectId(id) /\ id \notin 1..Len(bookings)) =>
                       ~e.success /\ e.message = <<NOT_FOUND>>
       /\ \A i \in 1..Len(bookings) :
             bookings[i].status = "cancelled" =>
                 i <= Len(bookings') /\ bookings'[i].status = "cancelled"]_vars

\* the first of two bookings was cancelled, the second is still confirmed
C22_Witness ==
    /\ Len(bookings) = 2
    /\ bookings[1].status = "cancelled" /\ bookings[2].status = "confirmed"
    /\ Len(log) = 3
    /\ log[Len(log)].op = "cancel" /\ log[Len(log)].bookingId = 1
    /\ log[Len(log)].success

(***************************************************************************)
(* C23: getEventBookings returns only bookings of the requested event with *)
(* status confirmed, newest first, and its total is the number of          *)
(* confirmed bookings of that event: what the find query answers are       *)
(* bookings the store holds as confirmed at that moment, and what the      *)
(* count query answers is the number of them; a cancelled booking is       *)
(* neither returned nor counted.                                           *)
(***************************************************************************)
C23_OnlyConfirmedBookings ==
    [][(reads.pc = "bookings" /\ reads' # reads) =>
          LET eventId == reads.args.eventId
              done == results' # results
              found == ~reads.found /\ (IF done THEN reads.counted ELSE reads'.found)
              counted == ~reads.counted /\ (IF done THEN reads.found ELSE reads'.counted)
              page == IF done THEN results'.events ELSE reads'.page
              total == IF done THEN results'.total ELSE reads'.total
          IN  /\ found =>
                    /\ \A k \in 1..Len(page) :
                          /\ page[k].id \in 1..Len(bookings)
                          /\ bookings[page[k].id] = page[k]
                          /\ page[k].eventId = eventId
                          /\ page[k].status = "confirmed"
                    /\ \A j, k \in 1..Len(page) : j < k => page[j].id > page[k].id
                    /\ (reads.args.limit >= Len(bookings)) =>
                          \A i \in 1..Len(bookings) :
                              (bookings[i].eventId = eventId
                                  /\ bookings[i].status = "confirmed") =>
                                  \E k \in 1..Len(page) : page[k] = bookings[i]
              /\ counted =>
                    total = Cardinality({i \in 1..Len(bookings) :
                                            /\ bookings[i].eventId = eventId
                                            /\ bookings[i].status = "confirmed"})]_vars

\* a booking of the event was cancelled, a second one was made, and a call
\* then returned the second one alone with total 1
C23_Witness ==
    /\ results.impl = "bookings" /\ ~results.caught
    /\ Len(log) = 3
    /\ log[2].op = "cancel" /\ log[2].success /\ log[2].bookingId = 1
    /\ log[3].op = "create" /\ log[3].success /\ log[3].bookingId = 2
    /\ bookings[1].eventId = results.args.eventId
    /\ bookings[2].eventId = results.args.eventId
    /\ results.total = 1
    /\ results.events = <<bookings[2]>>

(***************************************************************************)
(* C24: createBooking reports failures in a fixed precedence: a missing    *)
(* event (not-found) before capacity exhaustion, capacity exhaustion       *)
(* before field validation, field validation before duplicate detection.   *)
(* Every call returns a success flag and a message, a failing call writes  *)
(* no booking, and success is returned only with the booking persisted.    *)
(***************************************************************************)
C24_FailurePrecedence ==
    [][(Len(log') = Len(log) + 1 /\ log'[Len(log')].op = "create") =>
          LET e == log'[Len(log')]
              event == IF IsObjectId(e.eventId) THEN FindById(events, NoEvent, e.eventId)
                       ELSE NoEvent
              full == /\ event # NoEvent
                      /\ event.capacity # NoCapacity
                      /\ e.counted >= event.capacity
              fieldErrors == EmailErrors(e.email) \o NameErrors(e.nameLen)
          IN  /\ e.success \in BOOLEAN /\ e.message # <<>>
              /\ (IsObjectId(e.eventId) /\ event = NoEvent) =>
                    ~e.success /\ e.message = <<NOT_FOUND>>
              /\ full => ~e.success /\ e.message = <<EVENT_FULL>>
              /\ (event # NoEvent /\ ~full /\ fieldErrors # <<>>) =>
                    ~e.success /\ e.err = "ValidationError" /\ e.message = fieldErrors
              /\ ~e.success => bookings' = bookings
              /\ e.success =>
                    /\ bookings' = Append(bookings, bookings'[Len(bookings')])
                    /\ bookings'[Len(bookings')].id = e.bookingId
                    /\ bookings'[Len(bookings')].eventId = e.eventId
                    /\ bookings'[Len(bookings')].email = e.email]_vars

\* an invalid email on a full event got the capacity outcome, then an
\* invalid email on a missing event got not-found; one booking is stored
C24_Witness ==
    /\ Len(log) = 3 /\ Len(bookings) = 1
    /\ log[1].success
    /\ log[2].op = "create" /\ log[2].eventId = log[1].eventId
    /\ EmailErrors(log[2].email) # <<>> /\ log[2].message = <<EVENT_FULL>>
    /\ log[3].op = "create" /\ EmailErrors(log[3].email) # <<>>
    /\ log[3].message = <<NOT_FOUND>>

(***************************************************************************)
(* C25: with createBooking and cancelBooking calls that do not overlap,    *)
(* the confirmed bookings of an event with a capacity never outnumber it,  *)
(* and only confirmed bookings count against it: a valid createBooking     *)
(* with an email new to the event succeeds whenever fewer confirmed        *)
(* bookings than the capacity exist, as after a cancellation on a full     *)
(* event, and gets the capacity outcome otherwise.                         *)
(***************************************************************************)
C25_ConfirmedWithinCapacity ==
    /\ \A n \in 1..Len(events) :
          events[n].capacity # NoCapacity =>
              Cardinality({i \in 1..Len(bookings) :
                              /\ bookings[i].eventId = events[n].id
                              /\ bookings[i].status = "confirmed"}) <= events[n].capacity
    /\ \A i \in 1..Len(log), n \in 1..Len(events) :
          LET e == log[i]
              made == {j \in 1..(i - 1) :
                          /\ log[j].op = "create" /\ log[j].success
                          /\ log[j].eventId = e.eventId}
              cancelled == {log[j].bookingId : j \in
                              {k \in 1..(i - 1) :
                                  /\ log[k].op = "cancel" /\ log[k].success
                                  /\ log[k].eventId = e.eventId}}
              confirmedBefore == Cardinality(made) - Cardinality(cancelled)
          IN  (/\ e.op = "create" /\ e.eventId = events[n].id
               /\ events[n].capacity # NoCapacity
               /\ EmailErrors(e.email) \o NameErrors(e.nameLen) = <<>>
               /\ \A j \in made : log[j].email # e.email) =>
                  IF confirmedBefore < events[n].capacity
                  THEN e.success
                  ELSE ~e.success /\ e.message = <<EVENT_FULL>>

\* an event of capacity 1 was full, its booking was cancelled, and a
\* createBooking with another email then succeeded
C25_Witness ==
    /\ events[1].capacity = 1
    /\ Len(log) = 3 /\ Len(bookings) = 2
    /\ log[1].op = "create" /\ log[1].success /\ log[1].eventId = 1
    /\ log[2].op = "cancel" /\ log[2].success /\ log[2].bookingId = 1
    /\ log[3].op = "create" /\ log[3].success /\ log[3].eventId = 1
    /\ bookings[1].status = "cancelled" /\ bookings[2].status = "confirmed"

(***************************************************************************)
(* C26: the two listing implementations agree: on the same store and the   *)
(* same page, limit, search, mode, tag and sort arguments (limit within    *)
(* 1..50, page >= 1) GET /api/events and getUpcomingEvents select the same *)
(* set of events and the same totalPages.                                  *)
(***************************************************************************)
C26_ListingsAgree ==
    \A args \in Queries :
        LET today == UtcDay(clock)
            selected(impl) == {i \in 1..Len(events) : Matches(impl, events[i], args, today)}
        IN  (~QueryThrows("action", args) /\ ~QueryThrows("route", args)) =>
                /\ selected("route") = selected("action")
                /\ TotalPages(CountMatches("route", events, args, today), args.limit)
                      = TotalPages(CountMatches("action", events, args, today), args.limit)

(***************************************************************************)
(* C27: the two slug generators agree: for every title, generateSlug of    *)
(* lib/utils returns the string that the generateSlug of the event model   *)
(* returns, titles with underscores included, and each is idempotent:      *)
(* applied to its own output it returns that output.                       *)
(***************************************************************************)
C27_SlugGeneratorsAgree ==
    slugOut # NoSlugOut =>
        /\ utilsGenerateSlug(slugIn) = generateSlug(slugIn)
        /\ slugOut.fn = "model" => generateSlug(slugOut.slug) = slugOut.slug
        /\ slugOut.fn = "utils" => utilsGenerateSlug(slugOut.slug) = slugOut.slug

(***************************************************************************)
(* C28: every getEventStats result has totalEvents = onlineEvents +        *)
(* offlineEvents + hybridEvents, also when event creations come between    *)
(* the four count queries.                                                 *)
(***************************************************************************)
C28_StatsAddUp ==
    (results.impl = "stats" /\ ~results.caught) =>
        results.counts["totalEvents"] =
            results.counts["onlineEvents"] + results.counts["offlineEvents"]
                + results.counts["hybridEvents"]

(***************************************************************************)
(* C29: a POST /api/events that is rejected (missing fields, bad image     *)
(* type or size, schema validation failure, past date, duplicate slug)     *)
(* leaves the event collection and the image store unchanged: with no      *)
(* request in flight there is one stored event and one stored image for    *)
(* each request answered 201, and none for the others.                     *)
(***************************************************************************)
C29_RejectedPostWritesNothing ==
    (\A p \in Posters : posts[p].pc = "idle") =>
        LET created == Cardinality({i \in 1..Len(responses) : responses[i].status = 201})
        IN  /\ Len(events) = created
            /\ images = created

(***************************************************************************)
(* C30: connectDB reuses the cached connection only while it is healthy:   *)
(* a call that resolves returns a connection in the connected state, and   *)
(* a call that finds the cached promise already resolved, as after the     *)
(* connection has dropped, starts a connection attempt of its own instead  *)
(* of returning what that promise holds.                                   *)
(***************************************************************************)
C30_ReuseOnlyWhileHealthy ==
    \A i \in 1..Len(cached.history) :
        LET call == cached.history[i]
        IN  /\ call.outcome = "resolved" => call.readyState = Connected
            /\ call.found = "resolved" => call.invoked

====
